---------------------------- MODULE Spec2Model ----------------------------
(***************************************************************************)
(* PVC Shrink Ray: a mutating admission webhook that shrinks a labelled    *)
(* PersistentVolumeClaim restored from a VolumeSnapshot back to the        *)
(* snapshot's RestoreSize.                                                 *)
(*                                                                         *)
(* The model follows src/main.go: reviewPVC (the decision), handleMutate   *)
(* (the HTTP handler around it) and writeAdmissionReviewResponse.          *)
(*                                                                         *)
(* Encoding conventions                                                    *)
(*   - a Go pointer (or optional value) is a tuple: <<>> is nil, <<v>> is  *)
(*     a pointer to v;                                                     *)
(*   - a Go map is a record [nil, m]: nil says whether the map is nil and  *)
(*     m is the function from the keys present to their values;            *)
(*   - a resource.Quantity arrives on the wire as a string, modelled as    *)
(*     [num, suf] (digits and unit suffix); ParseQuantity turns it into    *)
(*     [value, format] and QuantityString prints the canonical form.       *)
(***************************************************************************)
EXTENDS Integers, Sequences, FiniteSets, TLC

\* Largest mantissa of the binary-suffixed quantities drawn as inputs.
MaxNum == 2

-----------------------------------------------------------------------------
(* Pointers and maps *)

Nil == <<>>

Ptr(v) == <<v>>

IsNil(p) == Len(p) = 0

Deref(p) == p[1]

OptionOf(S) == {Nil} \cup {Ptr(v) : v \in S}

\* Go map index: the zero value "" when the map is nil or the key is absent.
MapGet(mp, k) == IF (~mp.nil) /\ k \in DOMAIN mp.m THEN mp.m[k] ELSE ""

-----------------------------------------------------------------------------
(* resource.Quantity *)

\* Multiplier of a unit suffix.
SuffixMultiplier(suf) ==
    CASE suf = ""   -> 1
      [] suf = "k"  -> 1000
      [] suf = "M"  -> 1000 * 1000
      [] suf = "G"  -> 1000 * 1000 * 1000
      [] suf = "Ki" -> 1024
      [] suf = "Mi" -> 1024 * 1024
      [] suf = "Gi" -> 1024 * 1024 * 1024

SuffixFormat(suf) == IF suf \in {"Ki", "Mi", "Gi"} THEN "BinarySI" ELSE "DecimalSI"

\* resource.ParseQuantity (called by Quantity.UnmarshalJSON while the claim
\* and the snapshot are decoded): the exact integer value and the format.
ParseQuantity(w) ==
    [value |-> w.num * SuffixMultiplier(w.suf), format |-> SuffixFormat(w.suf)]

\* Quantity.Cmp: exact numeric comparison, -1, 0 or 1.
\* The comparison never reports equality.
QuantityCmp_NoEqual(a, b) ==
    IF a.value < b.value THEN -1 ELSE 1

QuantityCmp(a, b) ==
    IF a.value < b.value THEN -1 ELSE IF a.value > b.value THEN 1 ELSE 0

\* removeInt64Factors: value = result * base^times, times maximal.
RECURSIVE RemoveFactors(_, _)
RemoveFactors(v, base) ==
    IF v >= base /\ v % base = 0
    THEN LET r == RemoveFactors(v \div base, base)
         IN  [result |-> r.result, times |-> r.times + 1]
    ELSE [result |-> v, times |-> 0]

RECURSIVE Pow(_, _)
Pow(b, e) == IF e = 0 THEN 1 ELSE b * Pow(b, e - 1)

DecimalSuffix(exp) ==
    CASE exp = 0 -> ""
      [] exp = 3 -> "k"
      [] exp = 6 -> "M"
      [] exp = 9 -> "G"

BinarySuffix(times) ==
    CASE times = 0 -> ""
      [] times = 1 -> "Ki"
      [] times = 2 -> "Mi"
      [] times = 3 -> "Gi"

\* Quantity.String (CanonicalizeBytes): a BinarySI quantity of at least 1024
\* is printed with the largest power of 1024 that divides it; anything else
\* is printed in decimal with an exponent that is a multiple of 3.
QuantityString(q) ==
    IF q.value = 0 THEN "0"
    ELSE IF q.format = "BinarySI" /\ q.value >= 1024
    THEN LET r == RemoveFactors(q.value, 1024)
         IN  ToString(r.result) \o BinarySuffix(r.times)
    ELSE LET r   == RemoveFactors(q.value, 10)
             rem == r.times % 3
         IN  ToString(r.result * Pow(10, rem)) \o DecimalSuffix(r.times - rem)

-----------------------------------------------------------------------------
(* Names the code compares against *)

TriggerLabel == "cdi.kubevirt.io/applyStorageProfile"

\* snapshotv1.GroupName
SnapshotGroupName == "snapshot.storage.k8s.io"

StoragePath == "/spec/resources/requests/storage"

-----------------------------------------------------------------------------
(* Inputs: the objects a request can carry and the answers of the          *)
(* snapshot-lookup collaborator                                            *)

\* Quantity strings: binary-suffixed ones (1024Ki and 1024Mi are not in
\* canonical form), and decimal ones (2000 prints as 2k; 1048576 equals 1Mi
\* numerically and prints differently).
QuantityInputs ==
    {[num |-> n, suf |-> s] : n \in (1..MaxNum) \cup {1024}, s \in {"Ki", "Mi"}}
    \cup {[num |-> 0, suf |-> ""], [num |-> 2000, suf |-> ""],
          [num |-> 1048576, suf |-> ""], [num |-> 2, suf |-> "k"]}

LabelInputs ==
    { [nil |-> TRUE,  m |-> <<>>],
      [nil |-> FALSE, m |-> <<>>],
      [nil |-> FALSE, m |-> (TriggerLabel :> "true")],
      [nil |-> FALSE, m |-> (TriggerLabel :> "false")] }

KindInputs == {"VolumeSnapshot", "PersistentVolumeClaim"}

GroupInputs == {Nil, Ptr(SnapshotGroupName), Ptr("populator.storage.k8s.io")}

\* corev1.TypedLocalObjectReference (spec.dataSource)
DataSourceInputs ==
    OptionOf([apiGroup : GroupInputs, kind : KindInputs, name : {"", "snap-a"}])

\* corev1.TypedObjectReference (spec.dataSourceRef)
DataSourceRefInputs ==
    OptionOf([apiGroup : GroupInputs, kind : KindInputs, name : {"", "snap-b"},
              namespace : {Nil, Ptr(""), Ptr("snapshot-ns")}])

\* The claim as it is on the wire (req.Object.Raw, when it is a claim).
PVCInputs ==
    [namespace : {"pvc-ns"}, name : {"my-pvc"}, labels : LabelInputs,
     dataSource : DataSourceInputs, dataSourceRef : DataSourceRefInputs,
     storage : OptionOf(QuantityInputs)]

\* req.Object.Raw: no object ("null"), JSON that is not a claim, or a claim.
RawInputs ==
    {[json |-> "null", pvc |-> Nil], [json |-> "mistyped", pvc |-> Nil]}
    \cup {[json |-> "pvc", pvc |-> Ptr(p)] : p \in PVCInputs}

\* The answer of VolumeSnapshots(ns).Get(name): an error, or a snapshot whose
\* status is nil, has no restore size, or has one.
SnapshotInputs ==
    {[status |-> Nil], [status |-> Ptr([restoreSize |-> Nil])]}
    \cup {[status |-> Ptr([restoreSize |-> Ptr(q)])] : q \in QuantityInputs}

LookupErrors == {"not found", "etcdserver: request timed out", "context canceled"}

GetInputs ==
    {[err |-> Ptr(e), snapshot |-> Nil] : e \in LookupErrors}
    \cup {[err |-> Nil, snapshot |-> Ptr(s)] : s \in SnapshotInputs}

-----------------------------------------------------------------------------
(* json.Unmarshal(req.Object.Raw, &pvc) *)

\* The decoded claim: quantities are parsed while decoding.
DecodePVC(w) ==
    [namespace |-> w.namespace, name |-> w.name, labels |-> w.labels,
     dataSource |-> w.dataSource, dataSourceRef |-> w.dataSourceRef,
     storage |-> IF IsNil(w.storage) THEN Nil
                 ELSE Ptr(ParseQuantity(Deref(w.storage)))]

\* [err, pvc]: err is nil exactly when the raw bytes decode as a claim.
UnmarshalPVC(raw) ==
    CASE raw.json = "null" ->
           [err |-> Ptr("unexpected end of JSON input"), pvc |-> Nil]
      [] raw.json = "mistyped" ->
           [err |-> Ptr("json: cannot unmarshal string into Go value of type v1.PersistentVolumeClaim"),
            pvc |-> Nil]
      [] raw.json = "pvc" ->
           [err |-> Nil, pvc |-> Ptr(DecodePVC(Deref(raw.pvc)))]

\* A snapshot without a restore size counts as one of size zero.
RestoreSizeOf_ZeroWhenMissing(snapshot) ==
    IF (~IsNil(snapshot.status)) /\ ~IsNil(Deref(snapshot.status).restoreSize)
    THEN Ptr(ParseQuantity(Deref(Deref(snapshot.status).restoreSize)))
    ELSE Ptr(ParseQuantity([num |-> 0, suf |-> ""]))

\* The snapshot as the client returns it: its restore size parsed.
RestoreSizeOf(snapshot) ==
    IF (~IsNil(snapshot.status)) /\ ~IsNil(Deref(snapshot.status).restoreSize)
    THEN Ptr(ParseQuantity(Deref(Deref(snapshot.status).restoreSize)))
    ELSE Nil

-----------------------------------------------------------------------------
(* reviewPVC *)

\* An admissionv1.AdmissionResponse.  patch is the decoded JSON patch: Nil
\* when the Patch bytes are nil, else the sequence of instructions.
Response(allowed, message, patch, patchType) ==
    [uid |-> "", allowed |-> allowed, result |-> message,
     patch |-> patch, patchType |-> patchType]

Allow == Response(TRUE, Nil, Nil, Nil)

\* The diagnostic text is dropped.
AllowWithMessage_Silent(text) == Response(TRUE, Nil, Nil, Nil)

AllowWithMessage(text) == Response(TRUE, Ptr([message |-> text]), Nil, Nil)

PatchInstruction(q) ==
    [op |-> "replace", path |-> StoragePath, value |-> QuantityString(q)]

\* Lines 120-141.  json.Marshal of a []patch whose fields are strings does
\* not fail, so the branch of lines 121-129 is never taken.
\* The patch is sent without its type.
AllowWithPatch_NoType(q) ==
    Response(TRUE, Nil, Ptr(<<PatchInstruction(q)>>), Nil)

AllowWithPatch(q) ==
    Response(TRUE, Nil, Ptr(<<PatchInstruction(q)>>), Ptr("JSONPatch"))

Log(level, text) == [level |-> level, text |-> text]

\* What a run of reviewPVC leaves behind: the response (Nil while the run is
\* blocked in the lookup), the log lines in order, and the lookups made, each
\* the (namespace, name) asked for.
Outcome(response, logs, gets) ==
    [response |-> response, logs |-> logs, gets |-> gets]

\* The label's value is not looked at.
HasTriggerLabel_AnyValue(pvc) ==
    (~pvc.labels.nil) /\ TriggerLabel \in DOMAIN pvc.labels.m

HasTriggerLabel(pvc) ==
    ~(pvc.labels.nil \/ MapGet(pvc.labels, TriggerLabel) # "true")

\* The API group is not looked at.
RefMatches_AnyGroup(ref) == ref.kind = "VolumeSnapshot"

RefMatches(ref) ==
    /\ ref.kind = "VolumeSnapshot"
    /\ ~IsNil(ref.apiGroup)
    /\ Deref(ref.apiGroup) = SnapshotGroupName

NoSnapshot == [name |-> "", namespace |-> ""]

\* Lines 53-59: the primary data source, looked up in the claim's namespace.
ResolveDataSource(pvc) ==
    IF (~IsNil(pvc.dataSource)) /\ RefMatches(Deref(pvc.dataSource))
    THEN [name |-> Deref(pvc.dataSource).name, namespace |-> pvc.namespace]
    ELSE NoSnapshot

\* The reference's namespace is not looked at.
RefNamespace_ClaimOnly(pvc, ref) == pvc.namespace

RefNamespace(pvc, ref) ==
    IF (~IsNil(ref.namespace)) /\ Deref(ref.namespace) # ""
    THEN Deref(ref.namespace)
    ELSE pvc.namespace

\* Lines 60-69: the data-source-reference, tried when the primary one gave
\* no name.
ResolveDataSourceRef(pvc, sofar) ==
    IF sofar.name = "" /\ ~IsNil(pvc.dataSourceRef)
    THEN IF RefMatches(Deref(pvc.dataSourceRef))
         THEN [name |-> Deref(pvc.dataSourceRef).name,
               namespace |-> RefNamespace(pvc, Deref(pvc.dataSourceRef))]
         ELSE sofar
    ELSE sofar

\* The data-source reference is tried first.
ResolveSnapshot_RefFirst(pvc) ==
    LET viaRef == ResolveDataSourceRef(pvc, NoSnapshot)
    IN  IF viaRef.name # "" THEN viaRef ELSE ResolveDataSource(pvc)

ResolveSnapshot(pvc) == ResolveDataSourceRef(pvc, ResolveDataSource(pvc))

\* A claim of exactly the restore size counts as oversized.
Oversized_OrEqual(pvcSize, restoreSize) == QuantityCmp(pvcSize, restoreSize) >= 0

Oversized(pvcSize, restoreSize) == QuantityCmp(pvcSize, restoreSize) > 0

\* Fail closed: a failed lookup denies.
LookupFailed_Deny(text) == Response(FALSE, Ptr([message |-> text]), Nil, Nil)

\* The error text is dropped.
LookupFailed_NoMessage(text) == Allow

\* Lines 79-87: the verdict when the lookup returns an error.
LookupFailed(text) == AllowWithMessage(text)

\* Lines 89-147: the decision once the snapshot is in hand.
ReviewSnapshot(pvc, snapshot) ==
    LET restoreSize == RestoreSizeOf(snapshot) IN
    IF IsNil(restoreSize)
    THEN [response |-> Allow,
          logs |-> <<Log("warning", "has no RestoreSize, skipping")>>]
    ELSE IF IsNil(pvc.storage)
    THEN [response |-> Allow,
          logs |-> <<Log("warning", "has no storage request, skipping")>>]
    ELSE IF Oversized(Deref(pvc.storage), Deref(restoreSize))
    THEN [response |-> AllowWithPatch(Deref(restoreSize)),
          logs |-> <<Log("info", "Oversized PVC detected"),
                     Log("info", "Zapping oversized PVC")>>]
    ELSE [response |-> Allow,
          logs |-> <<Log("info", "is already smol, skipping")>>]

\* A failed lookup is tried once more.
Lookups_RetryOnError(target, get) ==
    IF (~IsNil(get)) /\ ~IsNil(Deref(get).err)
    THEN <<target, target>>
    ELSE <<target>>

\* Line 78: the calls of Get made for target, whatever the call returns.
Lookups(target, get) == <<target>>

\* reviewPVC(ctx, req, client).  get is what the lookup returns: Nil while
\* the call has not returned, else a pointer to client's answer.
reviewPVC(req, get) ==
    LET dec == UnmarshalPVC(req.object) IN
    IF ~IsNil(dec.err)
    THEN Outcome(Ptr(AllowWithMessage(Deref(dec.err))),
                 <<Log("error", "Could not unmarshal PVC")>>, <<>>)
    ELSE
    LET pvc       == Deref(dec.pvc)
        reviewing == <<Log("info", "Reviewing PVC")>>
    IN
    IF ~HasTriggerLabel(pvc)
    THEN Outcome(Ptr(Allow),
                 reviewing \o <<Log("warning", "doesn't have label, skipping")>>,
                 <<>>)
    ELSE
    LET target == ResolveSnapshot(pvc) IN
    IF target.name = ""
    THEN Outcome(Ptr(Allow),
                 reviewing \o <<Log("info", "doesn't have a VolumeSnapshot as DataSource, skipping")>>,
                 <<>>)
    ELSE IF IsNil(get)
    THEN Outcome(Nil, reviewing, Lookups(target, get))
    ELSE IF ~IsNil(Deref(get).err)
    THEN Outcome(Ptr(LookupFailed(Deref(Deref(get).err))),
                 reviewing \o <<Log("error", "Could not get VolumeSnapshot")>>,
                 Lookups(target, get))
    ELSE LET after == ReviewSnapshot(pvc, Deref(Deref(get).snapshot))
         IN  Outcome(Ptr(after.response), reviewing \o after.logs,
                     Lookups(target, get))

-----------------------------------------------------------------------------
(* HTTP requests *)

UIDInputs == {"uid-1", "uid-2"}

GVK(group, kind) == [group |-> group, version |-> "v1", kind |-> kind]

GVKInputs == {GVK(g, k) : g \in {"", "apps"}, k \in {"PersistentVolumeClaim", "Pod"}}

\* The claims of the repository's tests: restored from snap-a through
\* dataSource, and from snapshot-ns/snap-b through dataSourceRef.
FixturePVC(dataSource, dataSourceRef) ==
    [namespace |-> "pvc-ns", name |-> "my-pvc",
     labels |-> [nil |-> FALSE, m |-> (TriggerLabel :> "true")],
     dataSource |-> dataSource, dataSourceRef |-> dataSourceRef,
     storage |-> Ptr([num |-> 2, suf |-> "Mi"])]

FixtureRaws ==
    { [json |-> "null", pvc |-> Nil],
      [json |-> "pvc",
       pvc |-> Ptr(FixturePVC(Ptr([apiGroup |-> Ptr(SnapshotGroupName),
                                   kind |-> "VolumeSnapshot", name |-> "snap-a"]),
                              Nil))],
      [json |-> "pvc",
       pvc |-> Ptr(FixturePVC(Nil,
                              Ptr([apiGroup |-> Ptr(SnapshotGroupName),
                                   kind |-> "VolumeSnapshot", name |-> "snap-b",
                                   namespace |-> Ptr("snapshot-ns")])))] }

AdmissionRequests(kinds, raws) == [uid : UIDInputs, kind : kinds, object : raws]

\* A request body: unreadable, empty, not an admission review, or a review
\* (with or without its inner request).
ReviewBody(areq) == [kind |-> "review", review |-> Ptr([request |-> areq])]

BodiesOver(areqs) ==
    {[kind |-> k, review |-> Nil] : k \in {"unreadable", "empty", "malformed"}}
    \cup {ReviewBody(Nil)}
    \cup {ReviewBody(Ptr(a)) : a \in areqs}

MethodInputs == {"POST", "GET", "PUT"}

ContentTypeInputs ==
    {"application/json", "application/json; charset=utf-8", "text/plain"}

\* Every claim, snapshot reference and size is drawn for the requests that
\* are claims sent the way the API server sends them; the other methods,
\* content types and kinds carry the fixtures.
RequestInputs ==
    [method : {"POST"}, contentType : {"application/json"},
     body : BodiesOver(AdmissionRequests({GVK("", "PersistentVolumeClaim")}, RawInputs))]
    \cup
    [method : MethodInputs, contentType : ContentTypeInputs,
     body : BodiesOver(AdmissionRequests(GVKInputs, FixtureRaws))]

-----------------------------------------------------------------------------
(* handleMutate *)

\* http.Error(w, text, status).  When the connection refuses the bytes the
\* error of the write is dropped: nothing is logged.
HttpError(status, text) ==
    [status |-> status, contentType |-> "text/plain; charset=utf-8",
     text |-> text, review |-> Nil]

\* writeAdmissionReviewResponse: the whole review, request and response, as
\* JSON with the implicit status 200.
WriteReview(areq, aresp) ==
    [status |-> 200, contentType |-> "application/json", text |-> "",
     review |-> Ptr([request |-> areq, response |-> aresp])]

\* Lines 217-220 and 196-198, 205-207: a w.Write that fails (the client is
\* gone) is logged by writeAdmissionReviewResponse and again by handleMutate.
WriteLogs(writeOk) ==
    IF writeOk THEN <<>>
    ELSE <<Log("error", "Could not write response"),
           Log("error", "Could not write response")>>

\* What a run of handleMutate leaves behind: the HTTP response written (Nil
\* while blocked in the lookup), the log lines, the number of calls of
\* reviewPVC and the lookups made.
Handled(response, logs, reviews, gets) ==
    [response |-> response, logs |-> logs, reviews |-> reviews, gets |-> gets]

\* Line 178: the error of json.Unmarshal(body, &admissionReview) for the
\* body that is not an admission review, a JSON text cut short.
ReviewDecodeError(body) == "unexpected end of JSON input"

\* The rejection is not logged.
Rejected_Silent(status, text, logText) ==
    Handled(Ptr(HttpError(status, text)), <<>>, 0, <<>>)

Rejected(status, text, logText) ==
    Handled(Ptr(HttpError(status, text)), <<Log("error", logText)>>, 0, <<>>)

\* The content type is not checked.
TransportCheck_AnyContentType(r) ==
    IF r.method # "POST"
    THEN Ptr(Rejected(405, "invalid request method", "Invalid request method"))
    ELSE IF r.body.kind = "unreadable"
    THEN Ptr(Rejected(400, "could not read request body",
                      "Could not read request body"))
    ELSE IF r.body.kind = "empty"
    THEN Ptr(Rejected(400, "empty request body", "Empty request body"))
    ELSE IF r.body.kind = "malformed"
    THEN Ptr(Rejected(400, "failed to unmarshal admission review: "
                               \o ReviewDecodeError(r.body),
                      "Failed to unmarshal admission review"))
    ELSE IF IsNil(Deref(r.body.review).request)
    THEN Ptr(Rejected(400, "admission review request is missing",
                      "Admission review request is missing"))
    ELSE Nil

\* The content type is checked before the method.
TransportCheck_ContentTypeFirst(r) ==
    IF r.contentType # "application/json"
    THEN Ptr(Rejected(415, "invalid content type, expected application/json",
                      "Invalid content type"))
    ELSE IF r.method # "POST"
    THEN Ptr(Rejected(405, "invalid request method", "Invalid request method"))
    ELSE IF r.body.kind = "unreadable"
    THEN Ptr(Rejected(400, "could not read request body",
                      "Could not read request body"))
    ELSE IF r.body.kind = "empty"
    THEN Ptr(Rejected(400, "empty request body", "Empty request body"))
    ELSE IF r.body.kind = "malformed"
    THEN Ptr(Rejected(400, "failed to unmarshal admission review: "
                               \o ReviewDecodeError(r.body),
                      "Failed to unmarshal admission review"))
    ELSE IF IsNil(Deref(r.body.review).request)
    THEN Ptr(Rejected(400, "admission review request is missing",
                      "Admission review request is missing"))
    ELSE Nil

\* Lines 153-189: the transport preconditions, in the order of the code.
\* Nil when all of them hold, else what the first failing one leaves behind.
TransportCheck(r) ==
    IF r.method # "POST"
    THEN Ptr(Rejected(405, "invalid request method", "Invalid request method"))
    ELSE IF r.contentType # "application/json"
    THEN Ptr(Rejected(415, "invalid content type, expected application/json",
                      "Invalid content type"))
    ELSE IF r.body.kind = "unreadable"
    THEN Ptr(Rejected(400, "could not read request body",
                      "Could not read request body"))
    ELSE IF r.body.kind = "empty"
    THEN Ptr(Rejected(400, "empty request body", "Empty request body"))
    ELSE IF r.body.kind = "malformed"
    THEN Ptr(Rejected(400, "failed to unmarshal admission review: "
                               \o ReviewDecodeError(r.body),
                      "Failed to unmarshal admission review"))
    ELSE IF IsNil(Deref(r.body.review).request)
    THEN Ptr(Rejected(400, "admission review request is missing",
                      "Admission review request is missing"))
    ELSE Nil

\* The API group is not looked at.
KindSupported_AnyGroup(kind) == kind.kind = "PersistentVolumeClaim"

\* Line 191
KindSupported(kind) == ~(kind.group # "" \/ kind.kind # "PersistentVolumeClaim")

\* Lines 193-195: the response to an unsupported kind.
UnsupportedKindResponse(areq) == Allow

\* Line 203
SetUID(aresp, areq) == [aresp EXCEPT !.uid = areq.uid]

\* handleMutate(w, r, client), get as for reviewPVC; writeOk says whether w
\* accepts the review written to it.
handleMutate(r, get, writeOk) ==
    LET rejection == TransportCheck(r) IN
    IF ~IsNil(rejection) THEN Deref(rejection)
    ELSE
    LET areq == Deref(Deref(r.body.review).request) IN
    IF ~KindSupported(areq.kind)
    THEN Handled(Ptr(WriteReview(areq, UnsupportedKindResponse(areq))),
                 <<Log("warning", "Unsupported GVK")>> \o WriteLogs(writeOk),
                 0, <<>>)
    ELSE
    LET out == reviewPVC(areq, get) IN
    IF IsNil(out.response)
    THEN Handled(Nil, out.logs, 1, out.gets)
    ELSE Handled(Ptr(WriteReview(areq, SetUID(Deref(out.response), areq))),
                 out.logs \o WriteLogs(writeOk), 1, out.gets)

-----------------------------------------------------------------------------
(* The server handling one request after the other *)

VARIABLES
    pc,        \* "idle", "get" (blocked in the snapshot lookup) or "done"
    request,   \* Nil, or the HTTP request being handled
    reply,     \* Nil, or what the snapshot lookup returned
    response,  \* Nil, or the HTTP response written
    gets,      \* the lookups made for the request, in order
    reviews,   \* the number of calls of reviewPVC made for the request
    logs,      \* the log lines emitted for the request, in order
    sent,      \* whether the connection accepted the response written
    resent     \* Nil, or, for a claim sent again with its patch applied,
               \* what the lookup returned the first time

exchangeVars ==
    <<pc, request, reply, response, gets, reviews, logs, sent, resent>>

\* The process around the handler: main, the goroutine of line 254 and the
\* two channels between them.
VARIABLES
    mainAt,      \* where main is: "boot" (lines 225-252), "ready" (signals
                 \* are caught, line 263, select not yet entered), "select"
                 \* (blocked in it), "gotSignal" or "gotError" (the select
                 \* took that case), "shutdown" (in server.Shutdown), "exited"
    listener,    \* the goroutine: "unstarted", "binding", "listening",
                 \* "bindFailed", "serveFailed" or "closed"
    sigPending,  \* a signal is buffered in sigChan
    errPending,  \* the listener's error is buffered in errChan
    inflight,    \* the requests being handled
    shutdowns,   \* the calls of server.Shutdown made
    exitCode,    \* Nil, or the exit status of the process
    abandoned    \* the requests cut off by the exit of the process

lifeVars ==
    <<mainAt, listener, sigPending, errPending, inflight, shutdowns,
      exitCode, abandoned>>

\* The handlers the server runs at once, one goroutine per connection.
VARIABLES
    conns        \* per connection: pc, request, reply, response, gets,
                 \* reviews, logs, sent, as above for one handler

concVars == <<conns>>

vars == <<exchangeVars, lifeVars, concVars>>

\* The connections the server handles at once, at most.
MaxConns == 2

Conns == 1..MaxConns

\* A connection on which no request is being handled.
IdleConn ==
    [pc |-> "idle", request |-> Nil, reply |-> Nil, response |-> Nil,
     gets |-> <<>>, reviews |-> 0, logs |-> <<>>, sent |-> TRUE]

\* No connection carries a request.
ConcIdle == conns = [c \in Conns |-> IdleConn]

\* No request is being handled.
ExchangeIdle ==
    /\ pc = "idle"
    /\ request = Nil
    /\ reply = Nil
    /\ response = Nil
    /\ gets = <<>>
    /\ reviews = 0
    /\ logs = <<>>
    /\ sent = TRUE
    /\ resent = Nil

\* The process serves: the listener is bound and main waits in its select.
LifeServing ==
    /\ mainAt = "select"
    /\ listener = "listening"
    /\ sigPending = FALSE
    /\ errPending = FALSE
    /\ inflight = 0
    /\ shutdowns = 0
    /\ exitCode = Nil
    /\ abandoned = 0

\* Requests are handled while the process serves.
Init == LifeServing /\ ExchangeIdle /\ ConcIdle

Settle(h) ==
    /\ response' = h.response
    /\ gets' = h.gets
    /\ reviews' = h.reviews
    /\ logs' = h.logs
    /\ pc' = IF IsNil(h.response) THEN "get" ELSE "done"

\* A request arrives and handleMutate runs until it returns or blocks in
\* client.SnapshotV1().VolumeSnapshots(ns).Get.
HandleMutate(r) ==
    /\ request' = Ptr(r)
    /\ reply' = Nil
    /\ resent' = Nil
    /\ \E writeOk \in BOOLEAN :
          /\ Settle(handleMutate(r, Nil, writeOk))
          /\ sent' = (writeOk \/ pc' = "get")

\* The lookup returns g and handleMutate runs to its end.
GetReturns(g) ==
    /\ reply' = Ptr(g)
    /\ UNCHANGED <<request, resent>>
    /\ \E writeOk \in BOOLEAN :
          /\ Settle(handleMutate(Deref(request), Ptr(g), writeOk))
          /\ sent' = writeOk

\* The exchange is over; nothing of it is kept for the next request.
Finish ==
    /\ pc = "done"
    /\ pc' = "idle"
    /\ request' = Nil
    /\ reply' = Nil
    /\ response' = Nil
    /\ gets' = <<>>
    /\ reviews' = 0
    /\ logs' = <<>>
    /\ sent' = TRUE
    /\ resent' = Nil

\* The quantities a canonical string can stand for: every value of
\* QuantityInputs over every unit that divides it.
PrintedQuantities ==
    {[num |-> (q.num * SuffixMultiplier(q.suf)) \div SuffixMultiplier(suf),
      suf |-> suf] :
        <<q, suf>> \in {x \in QuantityInputs \X {"", "k", "M", "G", "Ki", "Mi", "Gi"} :
            (x[1].num * SuffixMultiplier(x[1].suf)) % SuffixMultiplier(x[2]) = 0}}

\* The quantity string text, as UnmarshalPVC reads it back: digits then suffix.
ReadQuantity(text) ==
    CHOOSE w \in PrintedQuantities : ToString(w.num) \o w.suf = text

\* The request r with the patch of lines 112-118 applied to its claim: the
\* value at /spec/resources/requests/storage is replaced by the patch's.
ApplyPatch(r, patch) ==
    [r EXCEPT !.body.review[1].request[1].object.pvc[1].storage =
                  Ptr(ReadQuantity(patch[1].value))]

\* The claim of a delivered review that carries a patch comes back with the
\* patch applied, while the snapshot is what it was.
Readmit ==
    /\ pc = "done"
    /\ sent
    /\ IsNil(resent)
    /\ ~IsNil(Deref(response).review)
    /\ ~IsNil(Deref(Deref(response).review).response.patch)
    /\ request' = Ptr(ApplyPatch(Deref(request),
                      Deref(Deref(Deref(response).review).response.patch)))
    /\ resent' = reply
    /\ reply' = Nil
    /\ Settle(handleMutate(Deref(request'), Nil, TRUE))
    /\ sent' = TRUE

\* The answers the lookup can give: anything for a new claim, the same again
\* for a claim sent again.
Answers == IF IsNil(resent) THEN GetInputs ELSE {Deref(resent)}

\* One handler followed from the arrival of its request to its return, for
\* every request and every answer of the lookup; handlers running at once
\* are ConcSpec's.
Next ==
    \/ pc = "idle" /\ UNCHANGED <<lifeVars, concVars>>
          /\ \E r \in RequestInputs : HandleMutate(r)
    \/ pc = "get" /\ UNCHANGED <<lifeVars, concVars>>
          /\ \E g \in Answers : GetReturns(g)
    \/ Readmit /\ UNCHANGED <<lifeVars, concVars>>
    \/ Finish /\ UNCHANGED <<lifeVars, concVars>>

Spec == Init /\ [][Next]_vars

-----------------------------------------------------------------------------
(* The exchange in the current state, as the properties below read it *)

Finished == pc = "done"

TheRequest == Deref(request)

\* The request passed every transport precondition.
WellFormed ==
    /\ ~IsNil(request)
    /\ TheRequest.method = "POST"
    /\ TheRequest.contentType = "application/json"
    /\ TheRequest.body.kind = "review"
    /\ ~IsNil(Deref(TheRequest.body.review).request)

\* The inner admission request of a well-formed request.
Inner == Deref(Deref(TheRequest.body.review).request)

IsPVCKind == Inner.kind.group = "" /\ Inner.kind.kind = "PersistentVolumeClaim"

\* reviewPVC runs on a claim that decodes.
ReviewsClaim == WellFormed /\ IsPVCKind /\ Inner.object.json = "pvc"

\* That claim, as sent.
Claim == Deref(Inner.object.pvc)

Labelled ==
    /\ ~Claim.labels.nil
    /\ TriggerLabel \in DOMAIN Claim.labels.m
    /\ Claim.labels.m[TriggerLabel] = "true"

\* A reference that is present, of kind VolumeSnapshot in the snapshot API
\* group, and names a snapshot.
NamesSnapshot(ref) ==
    /\ ~IsNil(ref)
    /\ Deref(ref).kind = "VolumeSnapshot"
    /\ Deref(ref).apiGroup = Ptr(SnapshotGroupName)
    /\ Deref(ref).name # ""

\* The admission review written back, and the verdict in it.
WroteReview == Finished /\ ~IsNil(Deref(response).review)

Verdict == Deref(Deref(response).review).response

Status == Deref(response).status

\* The lookup returned a snapshot with a restore size.
GotRestoreSize ==
    /\ Finished
    /\ ~IsNil(reply)
    /\ IsNil(Deref(reply).err)
    /\ ~IsNil(Deref(Deref(reply).snapshot).status)
    /\ ~IsNil(Deref(Deref(Deref(reply).snapshot).status).restoreSize)

RestoreSizeSent == Deref(Deref(Deref(Deref(reply).snapshot).status).restoreSize)

\* Exact number of bytes of a quantity string.
Bytes(w) == w.num * SuffixMultiplier(w.suf)

\* The canonical string of a quantity string, said without the printing
\* algorithm: the value over the largest unit of its family (powers of 1024
\* for a binary-suffixed quantity of at least 1024 bytes, powers of 1000
\* otherwise) that divides it exactly.
CanonicalUnits(w) ==
    IF w.suf \in {"Ki", "Mi"} /\ Bytes(w) >= 1024
    THEN {[suf |-> "", mult |-> 1], [suf |-> "Ki", mult |-> 1024],
          [suf |-> "Mi", mult |-> 1024 * 1024],
          [suf |-> "Gi", mult |-> 1024 * 1024 * 1024]}
    ELSE {[suf |-> "", mult |-> 1], [suf |-> "k", mult |-> 1000],
          [suf |-> "M", mult |-> 1000 * 1000],
          [suf |-> "G", mult |-> 1000 * 1000 * 1000]}

Canonical(w) ==
    IF Bytes(w) = 0 THEN "0"
    ELSE LET fits == {u \in CanonicalUnits(w) : Bytes(w) % u.mult = 0}
             best == CHOOSE u \in fits : \A v \in fits : v.mult <= u.mult
         IN  ToString(Bytes(w) \div best.mult) \o best.suf

-----------------------------------------------------------------------------
(* C1 *)

\* C1: a labelled claim whose snapshot is fetched with restore size R and
\* that requests S gets, when S > R, allowed with a patch of exactly one
\* instruction replacing /spec/resources/requests/storage by R's canonical
\* string, and when S <= R, allowed with no patch.
C1_ShrinkToRestoreSize ==
    (ReviewsClaim /\ GotRestoreSize /\ Labelled /\ ~IsNil(Claim.storage)) =>
        /\ WroteReview
        /\ Verdict.allowed
        /\ IF Bytes(Deref(Claim.storage)) > Bytes(RestoreSizeSent)
           THEN Verdict.patch =
                    Ptr(<<[op |-> "replace", path |-> StoragePath,
                           value |-> Canonical(RestoreSizeSent)]>>)
           ELSE Verdict.patch = Nil

\* Requested 2Ki against a restore size sent as 1024Ki (1Mi): not oversized,
\* although "2Ki" sorts after "1Mi"; and requested 2Mi against it: patched.
C1_Witness ==
    /\ ReviewsClaim /\ GotRestoreSize /\ Labelled
    /\ RestoreSizeSent = [num |-> 1024, suf |-> "Ki"]
    /\ Claim.storage = Ptr([num |-> 2, suf |-> "Mi"])
    /\ Verdict.patch = Ptr(<<[op |-> "replace", path |-> StoragePath, value |-> "1Mi"]>>)

-----------------------------------------------------------------------------
(* C2 *)

\* C2: the webhook never denies: every response written is either one of the
\* documented 4xx transport rejections or a review whose verdict is allowed.
C2_NeverDenies ==
    Finished =>
        \/ Status \in {400, 405, 415} /\ IsNil(Deref(response).review)
        \/ Status = 200 /\ WroteReview /\ Verdict.allowed

\* A failure branch that still allows: the lookup failed.
C2_Witness ==
    /\ WroteReview
    /\ ~IsNil(reply) /\ ~IsNil(Deref(reply).err)
    /\ Verdict.allowed

-----------------------------------------------------------------------------
(* C3 *)

\* C3: whenever handleMutate writes a review, on every branch, the
\* response's UID equals the request's UID.
C3_ResponseUIDMatches == WroteReview => Verdict.uid = Inner.uid

-----------------------------------------------------------------------------
(* C4 *)

\* C4: a claim whose labels are nil or do not map the trigger label to
\* exactly "true" is allowed with no patch, whatever its data source and
\* size.
C4_UnlabelledUntouched ==
    (ReviewsClaim /\ ~Labelled) =>
        /\ WroteReview
        /\ Verdict.allowed
        /\ Verdict.patch = Nil

\* The trigger label is there with another value, on a claim that names a
\* snapshot and asks for storage.
C4_Witness ==
    /\ ReviewsClaim /\ WroteReview
    /\ Claim.labels = [nil |-> FALSE, m |-> (TriggerLabel :> "false")]
    /\ NamesSnapshot(Claim.dataSource)
    /\ Claim.storage = Ptr([num |-> 1024, suf |-> "Mi"])
    /\ Verdict.patch = Nil

-----------------------------------------------------------------------------
(* C5 *)

\* C5: when both the data source and the data-source reference of a labelled
\* claim name a snapshot, the one looked up is the data source's: its name,
\* in the claim's own namespace.
C5_PrimaryFirst ==
    (ReviewsClaim /\ Labelled /\ NamesSnapshot(Claim.dataSource)
        /\ NamesSnapshot(Claim.dataSourceRef)) =>
        gets = <<[name |-> Deref(Claim.dataSource).name,
                  namespace |-> Claim.namespace]>>

\* Both name a snapshot, the reference in another namespace, and the lookup
\* went to pvc-ns/snap-a.
C5_Witness ==
    /\ ReviewsClaim /\ Labelled
    /\ NamesSnapshot(Claim.dataSource)
    /\ NamesSnapshot(Claim.dataSourceRef)
    /\ Deref(Claim.dataSourceRef).namespace = Ptr("snapshot-ns")
    /\ gets = <<[name |-> "snap-a", namespace |-> "pvc-ns"]>>

-----------------------------------------------------------------------------
(* C6 *)

\* C6: when the snapshot is resolved through the data-source reference, it
\* is looked up in the reference's namespace if that is present and not
\* empty, and in the claim's own namespace otherwise.
C6_RefNamespace ==
    (ReviewsClaim /\ Labelled /\ ~NamesSnapshot(Claim.dataSource)
        /\ NamesSnapshot(Claim.dataSourceRef)) =>
        LET ref == Deref(Claim.dataSourceRef) IN
        gets = <<[name |-> ref.name,
                  namespace |-> IF ref.namespace \in {Nil, Ptr("")}
                                THEN Claim.namespace
                                ELSE Deref(ref.namespace)]>>

\* A claim in pvc-ns whose reference points into snapshot-ns.
C6_Witness ==
    /\ ReviewsClaim /\ Labelled
    /\ Claim.namespace = "pvc-ns"
    /\ IsNil(Claim.dataSource)
    /\ NamesSnapshot(Claim.dataSourceRef)
    /\ Deref(Claim.dataSourceRef).namespace = Ptr("snapshot-ns")
    /\ gets = <<[name |-> "snap-b", namespace |-> "snapshot-ns"]>>

-----------------------------------------------------------------------------
(* C7 *)

\* C7: when neither the data source nor the data-source reference names a
\* snapshot, the claim is allowed with no patch and no lookup is made.
C7_UnresolvedUntouched ==
    (ReviewsClaim /\ ~NamesSnapshot(Claim.dataSource)
        /\ ~NamesSnapshot(Claim.dataSourceRef)) =>
        /\ WroteReview
        /\ Verdict.allowed
        /\ Verdict.patch = Nil
        /\ gets = <<>>

\* A labelled claim whose data source is a VolumeSnapshot of another API
\* group and whose reference is one without API group.
C7_Witness ==
    /\ ReviewsClaim /\ Labelled /\ WroteReview
    /\ Claim.dataSource = Ptr([apiGroup |-> Ptr("populator.storage.k8s.io"),
                               kind |-> "VolumeSnapshot", name |-> "snap-a"])
    /\ ~IsNil(Claim.dataSourceRef)
    /\ Deref(Claim.dataSourceRef).kind = "VolumeSnapshot"
    /\ Deref(Claim.dataSourceRef).apiGroup = Nil
    /\ Deref(Claim.dataSourceRef).name = "snap-b"
    /\ gets = <<>>

-----------------------------------------------------------------------------
(* C8 *)

\* C8: when the lookup returns an error, the answer is HTTP 200 with a
\* verdict that is allowed, has no patch and carries the error text as its
\* result message.
C8_LookupErrorAllows ==
    (Finished /\ ~IsNil(reply) /\ ~IsNil(Deref(reply).err)) =>
        /\ Status = 200
        /\ WroteReview
        /\ Verdict.allowed
        /\ Verdict.patch = Nil
        /\ Verdict.result = Ptr([message |-> Deref(Deref(reply).err)])

\* The lookup was cancelled.
C8_Witness ==
    /\ WroteReview
    /\ reply = Ptr([err |-> Ptr("context canceled"), snapshot |-> Nil])
    /\ Verdict.result = Ptr([message |-> "context canceled"])

-----------------------------------------------------------------------------
(* C9 *)

BadBody ==
    \/ TheRequest.body.kind \in {"unreadable", "empty", "malformed"}
    \/ IsNil(Deref(TheRequest.body.review).request)

\* C9: a request with a wrong method gets 405, one with the right method and
\* a wrong content type gets 415, one with both right and a body that is
\* unreadable, empty, undecodable or without inner request gets 400; none of
\* them reaches reviewPVC or the snapshot lookup.
C9_TransportRejections ==
    (pc # "idle" /\ ~WellFormed) =>
        /\ Finished
        /\ IsNil(Deref(response).review)
        /\ reviews = 0
        /\ gets = <<>>
        /\ Status = IF TheRequest.method # "POST" THEN 405
                    ELSE IF TheRequest.contentType # "application/json" THEN 415
                    ELSE 400
        /\ (Status = 400 => BadBody)

\* A claim that would be looked up, sent with a charset in the content type.
C9_Witness ==
    /\ Finished
    /\ TheRequest.method = "POST"
    /\ TheRequest.contentType = "application/json; charset=utf-8"
    /\ TheRequest.body.kind = "review"
    /\ ~IsNil(Deref(TheRequest.body.review).request)
    /\ IsPVCKind
    /\ Inner.object.json = "pvc"
    /\ Status = 415
    /\ reviews = 0

-----------------------------------------------------------------------------
(* C10 *)

\* C10: a well-formed review of any kind other than (group "", kind
\* PersistentVolumeClaim) is answered 200 with a verdict that is allowed and
\* has no patch, without reviewPVC or the lookup being reached.
C10_OtherKindsAllowed ==
    (pc # "idle" /\ WellFormed /\ ~IsPVCKind) =>
        /\ WroteReview
        /\ Status = 200
        /\ Verdict.allowed
        /\ Verdict.patch = Nil
        /\ reviews = 0
        /\ gets = <<>>

\* A PersistentVolumeClaim of another API group, carrying a claim that would
\* be looked up.
C10_Witness ==
    /\ WellFormed /\ WroteReview
    /\ Inner.kind = GVK("apps", "PersistentVolumeClaim")
    /\ Inner.object.json = "pvc"
    /\ reviews = 0

-----------------------------------------------------------------------------
(* C11 *)

\* C11: a claim that comes back with its patch applied, reviewed against
\* the same snapshot, requests exactly the restore size and is allowed with
\* no patch: one correction is a fixed point.
C11_PatchedClaimIsFixedPoint ==
    (Finished /\ ~IsNil(resent)) =>
        /\ WroteReview
        /\ reply = resent
        /\ Bytes(Deref(Claim.storage)) = Bytes(RestoreSizeSent)
        /\ Verdict.allowed
        /\ Verdict.patch = Nil

C11_Witness ==
    /\ Finished
    /\ ~IsNil(resent)
    /\ WroteReview
    /\ RestoreSizeSent = [num |-> 1024, suf |-> "Ki"]
    /\ Deref(Claim.storage) = [num |-> 1, suf |-> "Mi"]
    /\ Verdict.patch = Nil

-----------------------------------------------------------------------------
(* C12 *)

\* The lookup returned a snapshot whose status is absent or carries no
\* restore size.
GotNoRestoreSize ==
    /\ Finished
    /\ ~IsNil(reply)
    /\ IsNil(Deref(reply).err)
    /\ \/ IsNil(Deref(Deref(reply).snapshot).status)
       \/ IsNil(Deref(Deref(Deref(reply).snapshot).status).restoreSize)

\* C12: when the snapshot fetched has no restore size (its status is absent,
\* or present without a restore size), the claim is allowed with no patch,
\* whatever storage it requests.
C12_NoRestoreSizeUntouched ==
    GotNoRestoreSize =>
        /\ WroteReview
        /\ Verdict.allowed
        /\ Verdict.patch = Nil
        /\ Verdict.patchType = Nil

C12_Witness ==
    /\ GotNoRestoreSize
    /\ ~IsNil(Deref(Deref(reply).snapshot).status)
    /\ Claim.storage = Ptr([num |-> 1024, suf |-> "Mi"])
    /\ Verdict.allowed
    /\ Verdict.patch = Nil

-----------------------------------------------------------------------------
(* C13 *)

\* The bytes of the claim do not decode.
Undecodable == WellFormed /\ IsPVCKind /\ Inner.object.json # "pvc"

\* C13: when the raw bytes of the claim cannot be decoded, the review is
\* allowed with no patch and a diagnostic message, no snapshot lookup is
\* made, and handleMutate still answers 200 with the review envelope.
C13_UndecodableAllowed ==
    Undecodable =>
        /\ WroteReview
        /\ Status = 200
        /\ reviews = 1
        /\ gets = <<>>
        /\ IsNil(reply)
        /\ Verdict.allowed
        /\ Verdict.patch = Nil
        /\ ~IsNil(Verdict.result)
        /\ Deref(Verdict.result).message # ""

C13_Witness ==
    /\ Undecodable
    /\ Inner.object.json = "mistyped"
    /\ WroteReview
    /\ Status = 200
    /\ ~IsNil(Verdict.result)

-----------------------------------------------------------------------------
(* C17 *)

\* How far the body of the request gets: 0 when it cannot be read, 1 when
\* it is empty, 2 when it does not decode, 3 when the review in it has no
\* request, 4 when that request is not for a core PersistentVolumeClaim, 5
\* when it is.
BodyDepth ==
    CASE TheRequest.body.kind = "unreadable" -> 0
      [] TheRequest.body.kind = "empty" -> 1
      [] TheRequest.body.kind = "malformed" -> 2
      [] TheRequest.body.kind = "review" ->
           IF IsNil(Deref(TheRequest.body.review).request) THEN 3
           ELSE IF IsPVCKind THEN 5 ELSE 4

\* The preconditions the request fails, numbered in the order of the claim:
\* 1 method, 2 content type, 3 body readable, 4 body non-empty, 5 envelope
\* decodes, 6 inner request present, 7 kind matches.  A body that fails one
\* fails the later ones too.
FailedChecks ==
    (IF TheRequest.method # "POST" THEN {1} ELSE {})
    \cup (IF TheRequest.contentType # "application/json" THEN {2} ELSE {})
    \cup {i \in 3..7 : BodyDepth < i - 2}

FirstFailure == CHOOSE i \in FailedChecks : \A j \in FailedChecks : i <= j

\* The answer to a request whose first failed precondition is the i-th.
AnswersFailure(i) ==
    CASE i = 1 -> Status = 405 /\ ~WroteReview
      [] i = 2 -> Status = 415 /\ ~WroteReview
      [] i = 3 -> /\ Status = 400 /\ ~WroteReview
                  /\ Deref(response).text = "could not read request body"
      [] i = 4 -> /\ Status = 400 /\ ~WroteReview
                  /\ Deref(response).text = "empty request body"
      [] i = 5 -> /\ Status = 400 /\ ~WroteReview
                  /\ Deref(response).text =
                        "failed to unmarshal admission review: unexpected end of JSON input"
      [] i = 6 -> /\ Status = 400 /\ ~WroteReview
                  /\ Deref(response).text = "admission review request is missing"
      [] i = 7 -> WroteReview /\ Status = 200 /\ Verdict.allowed /\ Verdict.patch = Nil

\* C17: handleMutate checks method, content type, body readable, body
\* non-empty, envelope decodes, inner request present and kind matches in
\* that order and stops at the first that fails: the answer is the one of
\* the first failed precondition and nothing later is done.
C17_FirstFailureDecides ==
    (~IsNil(request) /\ FailedChecks # {}) =>
        /\ Finished
        /\ AnswersFailure(FirstFailure)
        /\ reviews = 0
        /\ gets = <<>>

\* A GET with the wrong content type and an empty body was answered 405.
C17_Witness ==
    /\ Finished
    /\ TheRequest.method = "GET"
    /\ TheRequest.contentType = "text/plain"
    /\ TheRequest.body.kind = "empty"
    /\ FailedChecks = {1, 2, 4, 5, 6, 7}
    /\ Status = 405

-----------------------------------------------------------------------------
(* C18 *)

\* C18: a handled request makes at most one snapshot lookup: once the
\* lookup has returned, with an error or with a snapshot, the handler runs
\* to its end with that one lookup made.
C18_AtMostOneLookup ==
    /\ Len(gets) <= 1
    /\ reviews <= 1
    /\ (~IsNil(reply)) => (Finished /\ Len(gets) = 1)

\* A lookup failed and the request was answered after that single lookup.
C18_Witness ==
    /\ Finished
    /\ ~IsNil(reply)
    /\ ~IsNil(Deref(reply).err)
    /\ Len(gets) = 1
    /\ WroteReview

-----------------------------------------------------------------------------
(* C20 *)

\* The log lines of the branch taken, the write of the response apart: one
\* for a transport violation, a kind mismatch or a claim that does not
\* decode, three for a correction, two for every other review.
BranchLines ==
    IF FailedChecks # {} \/ Undecodable THEN 1
    ELSE IF ~IsNil(Verdict.patch) THEN 3
    ELSE 2

\* C20 as stated: every branch of request handling emits exactly one log
\* line.
C20_ExactlyOneLogLine == Finished => Len(logs) = 1

\* C20, amended: every branch emits one log line for its outcome, the last
\* of the branch; a transport violation, a kind mismatch and a claim that
\* does not decode emit that line only, every other review emits a
\* "Reviewing PVC" line before it, a correction an "Oversized PVC detected"
\* line between the two, and a review the connection does not accept adds
\* two "Could not write response" error lines.
C20_LogLinesPerBranch ==
    Finished =>
        /\ Len(logs) = BranchLines + (IF sent \/ ~WroteReview THEN 0 ELSE 2)
        /\ (BranchLines > 1) => logs[1] = Log("info", "Reviewing PVC")
        /\ (BranchLines = 3) =>
               /\ logs[2] = Log("info", "Oversized PVC detected")
               /\ logs[3] = Log("info", "Zapping oversized PVC")
        /\ logs[BranchLines].text # "Reviewing PVC"
        /\ \A i \in (BranchLines + 1)..Len(logs) :
               logs[i] = Log("error", "Could not write response")

\* A correction was delivered and left three lines.
C20_Witness ==
    /\ Finished
    /\ sent
    /\ WroteReview
    /\ ~IsNil(Verdict.patch)
    /\ Len(logs) = 3

-----------------------------------------------------------------------------
(* main: start, select on signal and listener error, shutdown *)

\* The requests the server handles at once, at most.
MaxInFlight == 3

\* klog.Fatalf exits with status 255; a return from main with 0.
FatalExit == 255

\* Line 225: main starts, the goroutine of line 254 does not exist yet.
LifeInit ==
    /\ ExchangeIdle
    /\ ConcIdle
    /\ mainAt = "boot"
    /\ listener = "unstarted"
    /\ sigPending = FALSE
    /\ errPending = FALSE
    /\ inflight = 0
    /\ shutdowns = 0
    /\ exitCode = Nil
    /\ abandoned = 0

\* The process is gone: nothing of it runs any more, the requests in
\* flight are cut off.
Exit(code) ==
    /\ mainAt' = "exited"
    /\ exitCode' = Ptr(code)
    /\ abandoned' = inflight

\* Lines 227-235: the configuration or the client cannot be built.
BootFails ==
    /\ mainAt = "boot"
    /\ Exit(FatalExit)
    /\ UNCHANGED <<listener, sigPending, errPending, inflight, shutdowns>>

\* Lines 227-263: the client is built, the goroutine is started and the
\* signals are caught.
Boot ==
    /\ mainAt = "boot"
    /\ mainAt' = "ready"
    /\ listener' = "binding"
    /\ UNCHANGED <<sigPending, errPending, inflight, shutdowns, exitCode,
                   abandoned>>

\* SIGINT or SIGTERM arrives once signal.Notify is in force.  A main blocked
\* in the select is handed the signal; otherwise it is buffered in sigChan,
\* whose capacity is one.
Signal ==
    /\ mainAt \notin {"boot", "exited"}
    /\ IF mainAt = "select"
       THEN mainAt' = "gotSignal" /\ UNCHANGED sigPending
       ELSE sigPending' = TRUE /\ UNCHANGED mainAt
    /\ UNCHANGED <<listener, errPending, inflight, shutdowns, exitCode,
                   abandoned>>

\* Lines 256-258: ListenAndServeTLS returned an error that is not
\* http.ErrServerClosed and the goroutine sends it on errChan.  A main
\* blocked in the select is handed the error; otherwise it is buffered,
\* also when main is past the select and nobody will read it.
ListenerFails(how) ==
    /\ mainAt # "exited"
    /\ listener' = how
    /\ IF mainAt = "select"
       THEN mainAt' = "gotError" /\ UNCHANGED errPending
       ELSE errPending' = TRUE /\ UNCHANGED mainAt
    /\ UNCHANGED <<sigPending, inflight, shutdowns, exitCode, abandoned>>

\* The certificate cannot be loaded or the port cannot be bound.
BindFails == listener = "binding" /\ ListenerFails("bindFailed")

\* Accept fails for good while serving.
ServeFails == listener = "listening" /\ ListenerFails("serveFailed")

\* ListenAndServeTLS binds the port and serves.
Bind ==
    /\ listener = "binding"
    /\ mainAt \notin {"shutdown", "exited"}
    /\ listener' = "listening"
    /\ UNCHANGED <<mainAt, sigPending, errPending, inflight, shutdowns,
                   exitCode, abandoned>>

\* ListenAndServeTLS on a server already shut down returns
\* http.ErrServerClosed: nothing is sent, errChan is closed (line 259).
BindAfterShutdown ==
    /\ listener = "binding"
    /\ mainAt = "shutdown"
    /\ listener' = "closed"
    /\ UNCHANGED <<mainAt, sigPending, errPending, inflight, shutdowns,
                   exitCode, abandoned>>

\* Line 264, main enters the select with a signal buffered: the case of
\* line 265 can be taken.
SelectSignal ==
    /\ mainAt = "ready"
    /\ sigPending
    /\ mainAt' = "gotSignal"
    /\ sigPending' = FALSE
    /\ UNCHANGED <<listener, errPending, inflight, shutdowns, exitCode,
                   abandoned>>

\* Line 264, main enters the select with an error buffered: the case of
\* line 267 can be taken.  With both buffered either case can be.
SelectError ==
    /\ mainAt = "ready"
    /\ errPending
    /\ mainAt' = "gotError"
    /\ errPending' = FALSE
    /\ UNCHANGED <<listener, sigPending, inflight, shutdowns, exitCode,
                   abandoned>>

\* Line 264, nothing is buffered: main blocks.
SelectBlocks ==
    /\ mainAt = "ready"
    /\ ~sigPending
    /\ ~errPending
    /\ mainAt' = "select"
    /\ UNCHANGED <<listener, sigPending, errPending, inflight, shutdowns,
                   exitCode, abandoned>>

\* The listener's error is logged and main goes on to the shutdown.
Fatal_GoesOn ==
    /\ mainAt = "gotError"
    /\ mainAt' = "shutdown"
    /\ UNCHANGED <<exitCode, abandoned>>
    /\ UNCHANGED <<listener, sigPending, errPending, inflight, shutdowns>>

\* Line 268
Fatal ==
    /\ mainAt = "gotError"
    /\ Exit(FatalExit)
    /\ UNCHANGED <<listener, sigPending, errPending, inflight, shutdowns>>

\* Lines 271-275: main calls server.Shutdown, which closes the listener.
Shutdown ==
    /\ mainAt = "gotSignal"
    /\ mainAt' = "shutdown"
    /\ shutdowns' = shutdowns + 1
    /\ listener' = IF listener = "listening" THEN "closed" ELSE listener
    /\ UNCHANGED <<sigPending, errPending, inflight, exitCode, abandoned>>

\* A request arrives on the bound listener and its handler starts.
Accept ==
    /\ mainAt # "exited"
    /\ listener = "listening"
    /\ inflight < MaxInFlight
    /\ inflight' = inflight + 1
    /\ UNCHANGED <<mainAt, listener, sigPending, errPending, shutdowns,
                   exitCode, abandoned>>

\* A handler returns.
Complete ==
    /\ mainAt # "exited"
    /\ inflight > 0
    /\ inflight' = inflight - 1
    /\ UNCHANGED <<mainAt, listener, sigPending, errPending, shutdowns,
                   exitCode, abandoned>>

\* Lines 275-278: no request is in flight, server.Shutdown returns nil and
\* main returns.
Drained ==
    /\ mainAt = "shutdown"
    /\ inflight = 0
    /\ Exit(0)
    /\ UNCHANGED <<listener, sigPending, errPending, inflight, shutdowns>>

\* The context handed to server.Shutdown never expires.
ShutdownHasDeadline_Background == FALSE

\* Line 272: the context handed to server.Shutdown expires, 30 seconds on.
ShutdownHasDeadline == TRUE

\* Lines 275-278: the context expires, server.Shutdown returns its error,
\* which is logged, and main returns.
GraceExpires ==
    /\ mainAt = "shutdown"
    /\ ShutdownHasDeadline
    /\ Exit(0)
    /\ UNCHANGED <<listener, sigPending, errPending, inflight, shutdowns>>

LifeNext ==
    \/ BootFails /\ UNCHANGED <<exchangeVars, concVars>>
    \/ Boot /\ UNCHANGED <<exchangeVars, concVars>>
    \/ Signal /\ UNCHANGED <<exchangeVars, concVars>>
    \/ BindFails /\ UNCHANGED <<exchangeVars, concVars>>
    \/ ServeFails /\ UNCHANGED <<exchangeVars, concVars>>
    \/ Bind /\ UNCHANGED <<exchangeVars, concVars>>
    \/ BindAfterShutdown /\ UNCHANGED <<exchangeVars, concVars>>
    \/ SelectSignal /\ UNCHANGED <<exchangeVars, concVars>>
    \/ SelectError /\ UNCHANGED <<exchangeVars, concVars>>
    \/ SelectBlocks /\ UNCHANGED <<exchangeVars, concVars>>
    \/ Fatal /\ UNCHANGED <<exchangeVars, concVars>>
    \/ Shutdown /\ UNCHANGED <<exchangeVars, concVars>>
    \/ Accept /\ UNCHANGED <<exchangeVars, concVars>>
    \/ Complete /\ UNCHANGED <<exchangeVars, concVars>>
    \/ Drained /\ UNCHANGED <<exchangeVars, concVars>>
    \/ GraceExpires /\ UNCHANGED <<exchangeVars, concVars>>

LifeSpec == LifeInit /\ [][LifeNext]_vars

\* main is a goroutine that runs when it can, and the timer of the
\* shutdown context fires.
LifeFair ==
    /\ LifeInit
    /\ [][LifeNext]_vars
    /\ WF_vars(Shutdown /\ UNCHANGED <<exchangeVars, concVars>>)
    /\ WF_vars(GraceExpires /\ UNCHANGED <<exchangeVars, concVars>>)

\* The lifecycle state of the process: stopped once it has exited, draining
\* while main is in server.Shutdown, serving from the moment the listener
\* is bound, starting before.
Phase ==
    IF mainAt = "exited" THEN "stopped"
    ELSE IF mainAt = "shutdown" THEN "draining"
    ELSE IF listener \in {"listening", "serveFailed"} THEN "serving"
    ELSE "starting"

-----------------------------------------------------------------------------
(* C14 *)

\* C14: once main has received a termination signal while serving, it calls
\* server.Shutdown exactly once and the process eventually stops with that
\* one call made: it leaves draining when no request is in flight or when
\* the deadline of the shutdown context passes, so a request that never
\* completes does not keep it.
C14_SignalDrainsAndStops ==
    /\ [](shutdowns <= 1)
    /\ [](Phase = "draining" => shutdowns = 1)
    /\ (mainAt = "gotSignal" /\ Phase = "serving")
           ~> (Phase = "stopped" /\ shutdowns = 1 /\ exitCode = Ptr(0))

\* The process stopped at the deadline, with a request still unfinished.
C14_Witness ==
    /\ Phase = "stopped"
    /\ shutdowns = 1
    /\ exitCode = Ptr(0)
    /\ abandoned > 0

-----------------------------------------------------------------------------
(* C15 *)

\* C15 as stated: whenever the listener fails with an error that is not the
\* close of a shutdown, however that failure interleaves with a termination
\* signal, the process stops with a non-zero status and without a call of
\* server.Shutdown; status 0 is only ever the end of a drain started by a
\* signal.
C15_ListenerErrorIsFatal ==
    /\ (listener \in {"bindFailed", "serveFailed"}) => shutdowns = 0
    /\ (Phase = "stopped" /\ listener \in {"bindFailed", "serveFailed"}) =>
           exitCode = Ptr(FatalExit)
    /\ (exitCode = Ptr(0)) => shutdowns = 1

-----------------------------------------------------------------------------
(* C16 *)

\* The place of a lifecycle state in the order starting, serving, draining,
\* stopped.
Rank(phase) ==
    CASE phase = "starting" -> 1
      [] phase = "serving" -> 2
      [] phase = "draining" -> 3
      [] phase = "stopped" -> 4

\* A step moves forward or stays; it leaves serving only with a signal taken
\* (into draining) or a listener error taken (into stopped); nothing leaves
\* stopped.
ForwardStep ==
    /\ Rank(Phase') >= Rank(Phase)
    /\ (Phase = "serving" /\ Phase' # "serving") =>
           \/ mainAt = "gotSignal" /\ Phase' = "draining"
           \/ mainAt = "gotError" /\ Phase' = "stopped"
    /\ (Phase = "stopped") => UNCHANGED lifeVars

\* C16 as stated: the lifecycle only moves forward through starting,
\* serving, draining, stopped; serving is left only by a termination signal
\* or a listener error, draining is entered only from serving, and nothing
\* leaves stopped.
C16_DrainOnlyFromServing ==
    [][ /\ ForwardStep
        /\ (Phase # "draining" /\ Phase' = "draining") => Phase = "serving"
      ]_vars

\* C16, amended: the lifecycle only moves forward through starting,
\* serving, draining, stopped; serving is left only by a termination signal
\* or a listener error, draining is entered only by a termination signal
\* taken, from serving or, when the listener is not bound yet, from
\* starting, and nothing leaves stopped.
C16_ForwardOnly ==
    [][ /\ ForwardStep
        /\ (Phase # "draining" /\ Phase' = "draining") =>
               /\ Phase \in {"starting", "serving"}
               /\ mainAt = "gotSignal"
      ]_vars

\* The process drains although its listener was never bound.
C16_Witness ==
    /\ Phase = "draining"
    /\ listener = "binding"
    /\ shutdowns = 1

-----------------------------------------------------------------------------
(* Handlers running at once *)

\* The requests sent on the connections: the claims of the tests, by POST
\* and by GET.
ConcRequests ==
    [method : {"POST", "GET"}, contentType : {"application/json"},
     body : {ReviewBody(Ptr(a)) :
                a \in AdmissionRequests({GVK("", "PersistentVolumeClaim")}, FixtureRaws)}]

\* The server serves and no connection carries a request.
ConcInit ==
    /\ ExchangeIdle
    /\ LifeServing
    /\ ConcIdle

\* What a run of handleMutate leaves on its connection, which accepted
\* what was written or not.
ConnAfter(r, get, h, writeOk) ==
    [pc |-> IF IsNil(h.response) THEN "get" ELSE "done",
     request |-> Ptr(r), reply |-> get, response |-> h.response,
     gets |-> h.gets, reviews |-> h.reviews, logs |-> h.logs,
     sent |-> (writeOk \/ IsNil(h.response))]

\* A request arrives on connection c and its handler runs until it returns
\* or blocks in the lookup.
ConcHandle(c, r) ==
    /\ conns[c].pc = "idle"
    /\ \E writeOk \in BOOLEAN :
          conns' = [conns EXCEPT ![c] =
                       ConnAfter(r, Nil, handleMutate(r, Nil, writeOk), writeOk)]

\* The lookup of the handler of connection c returns g, whatever the other
\* handlers wait for, and the handler runs to its end.
ConcGet(c, g) ==
    /\ conns[c].pc = "get"
    /\ LET r == Deref(conns[c].request)
       IN  \E writeOk \in BOOLEAN :
             conns' = [conns EXCEPT ![c] =
                          ConnAfter(r, Ptr(g), handleMutate(r, Ptr(g), writeOk),
                                    writeOk)]

\* The exchange on connection c is over.
ConcFinish(c) ==
    /\ conns[c].pc = "done"
    /\ conns' = [conns EXCEPT ![c] = IdleConn]

\* Each connection is served by a goroutine of its own: a request is taken
\* on any connection that carries none, and the lookups return in any
\* order.
ConcNext ==
    \/ \E c \in Conns : \E r \in ConcRequests :
          ConcHandle(c, r) /\ UNCHANGED <<exchangeVars, lifeVars>>
    \/ \E c \in Conns : \E g \in GetInputs :
          ConcGet(c, g) /\ UNCHANGED <<exchangeVars, lifeVars>>
    \/ \E c \in Conns : ConcFinish(c) /\ UNCHANGED <<exchangeVars, lifeVars>>

ConcSpec == ConcInit /\ [][ConcNext]_vars

-----------------------------------------------------------------------------
(* C21 *)

\* The claim decodes, carries the trigger label with value "true" and names
\* a snapshot, the lookup returned that snapshot with a restore size, and
\* the claim requests more storage than that.
PatchConditions ==
    /\ ReviewsClaim
    /\ Labelled
    /\ NamesSnapshot(Claim.dataSource) \/ NamesSnapshot(Claim.dataSourceRef)
    /\ Len(gets) = 1
    /\ GotRestoreSize
    /\ ~IsNil(Claim.storage)
    /\ Bytes(Deref(Claim.storage)) > Bytes(RestoreSizeSent)

\* C21: a response carries a patch if and only if the claim decodes, has
\* the trigger label with value "true", names a snapshot, the single lookup
\* succeeds, the snapshot has a restore size R, the claim requests a storage
\* size S, and S > R; the patch type is JSONPatch exactly when a patch is
\* present, and absent otherwise.
C21_PatchIffAllConditions ==
    Finished =>
        /\ (WroteReview /\ ~IsNil(Verdict.patch)) <=> PatchConditions
        /\ WroteReview =>
               Verdict.patchType =
                   (IF IsNil(Verdict.patch) THEN Nil ELSE Ptr("JSONPatch"))

\* A labelled claim with no storage request: the snapshot was looked up and
\* has a restore size, and the review carries no patch.
C21_Witness ==
    /\ ReviewsClaim /\ Labelled
    /\ GotRestoreSize
    /\ Len(gets) = 1
    /\ IsNil(Claim.storage)
    /\ WroteReview
    /\ Verdict.patch = Nil
    /\ Verdict.patchType = Nil

=============================================================================
